---- MODULE Spec2Model ----
(***************************************************************************)
(* Event-ingestion glue of minubo-elb-aws-cdk:                             *)
(*   src/lambda/lambda_function.py        the event handler and its writer *)
(*   src/lambda/setup_database_lambda.py  the schema bootstrap handler     *)
(*   src/setup-database-via-lambda.py     the external invoker             *)
(* One invocation runs at a time; every external call (secret store,       *)
(* warehouse connection, Lambda Invoke API) either succeeds or raises, the *)
(* outcome being chosen by the environment.                                *)
(***************************************************************************)
EXTENDS Integers, Sequences, FiniteSets, TLC

VARIABLES
    pc,           \* position of the running program ("idle" between invocations)
    prog,         \* "none" | "event" | "bootstrap": the handler that is running
    viaInvoker,   \* TRUE while the bootstrap handler runs on behalf of the invoker
    request,      \* the request object handed to the event lambda_handler
    event_data,   \* json.loads(event['body']) of the event handler
    clock,        \* datetime.now() as read by convert_timestamp's fallback
    conn,         \* "none" | "open" | "closed": the pg8000 connection of the invocation
    calls,        \* the external calls attempted so far in this invocation, in order
    row,          \* the 36-tuple `values` built by the writer (<<>> before)
    pending,      \* the connection's open transaction: [rows, create]
    table,        \* the warehouse: [exists, def, rows] of table `events`
    credentials,  \* what get_redshift_credentials returned to the bootstrap handler
    success,      \* "none" | "True" | "False" | "raised": result of the writer / create_database_schema
    response,     \* the handler's return value (NoResponse while running, Raised if it raised)
    faulted,      \* TRUE once the environment failed an external call of this invocation
    log,          \* one record per finished invocation
    exitCode,     \* the invoker's exit status (NoExit while none)
    printed       \* what the invoker printed: "none" | "success" | "failure"

vars == << pc, prog, viaInvoker, request, event_data, clock, conn, calls, row,
           pending, table, credentials, success, response, faulted, log,
           exitCode, printed >>

(***************************************************************************)
(* Bounds of the model.                                                    *)
(***************************************************************************)
MaxInvocations == 2   \* invocations in one behaviour
MaxEpochSec == 2      \* datetime.fromtimestamp accepts -MaxEpochSec..MaxEpochSec seconds (scaled)
MaxDataKeys == 1      \* keys present in `data` of the row-mapper inputs

(***************************************************************************)
(* Python / JSON values.                                                   *)
(***************************************************************************)
PNone == [ty |-> "null"]
PNum(n) == [ty |-> "num", n |-> n]
PStr(toks) == [ty |-> "str", toks |-> toks]
S(x) == PStr(<< x >>)
PList(xs) == [ty |-> "list", xs |-> xs]
PObj(f) == [ty |-> "obj", f |-> f]
EmptyDict == PObj([k \in {} |-> PNone])
EmptyList == PList(<< >>)
Unserializable == [ty |-> "unserializable"]

\* a str holding a JSON text of value v, and one holding no JSON text
JsonText(v) == [ty |-> "str", valid |-> TRUE, value |-> v]
Garbage == [ty |-> "str", valid |-> FALSE]

Ok(v) == [ok |-> TRUE, val |-> v]
Raise(e) == [ok |-> FALSE, exc |-> e]

\* dict.get(k, default); AttributeError on anything that is no dict
Get(d, k, default) ==
    IF d.ty # "obj" THEN Raise("AttributeError")
    ELSE IF k \in DOMAIN d.f THEN Ok(d.f[k]) ELSE Ok(default)

\* `k in x` for a str key k: key test on a dict, element test on a list,
\* substring test on a str, TypeError on None / numbers
Contains(x, k) ==
    CASE x.ty = "obj" -> Ok(k \in DOMAIN x.f)
      [] x.ty = "list" -> Ok(\E i \in 1..Len(x.xs) : x.xs[i] = S(k))
      [] x.ty = "str" /\ "toks" \in DOMAIN x -> Ok(\E i \in 1..Len(x.toks) : x.toks[i] = k)
      [] OTHER -> Raise("TypeError")

\* json.loads(body)
Loads(body) ==
    IF body.ty # "str" THEN Raise("TypeError")
    ELSE IF "valid" \in DOMAIN body /\ body.valid THEN Ok(body.value)
    ELSE Raise("JSONDecodeError")

\* json.dumps(v): the JSON text of v
Dumps(v) == JsonText(v)

(***************************************************************************)
(* convert_timestamp (lambda_function.py 83-90).                           *)
(***************************************************************************)
\* dt.isoformat(): the text of the local time ms milliseconds after the epoch
IsoFormat(ms) == [ty |-> "isotime", sec |-> ms \div 1000, milli |-> ms % 1000]

\* datetime.fromtimestamp(timestamp_ms / 1000.0): TypeError when the operand
\* is no number, OverflowError when the instant is outside datetime's range
FromTimestamp(timestamp_ms) ==
    IF timestamp_ms.ty # "num" THEN Raise("TypeError")
    ELSE IF timestamp_ms.n < -(MaxEpochSec * 1000) \/ timestamp_ms.n >= (MaxEpochSec + 1) * 1000
         THEN Raise("OverflowError")
    ELSE Ok(timestamp_ms.n)

convert_timestamp_no_fallback(timestamp_ms, now) ==
    LET dt == FromTimestamp(timestamp_ms)
    IN  IF dt.ok THEN IsoFormat(dt.val) ELSE PNone

convert_timestamp(timestamp_ms, now) ==
    LET dt == FromTimestamp(timestamp_ms)
    IN  IF dt.ok THEN IsoFormat(dt.val) ELSE IsoFormat(now)

(***************************************************************************)
(* The row mapper (lambda_function.py 50-81 and 98-164).                   *)
(***************************************************************************)
extract_data_fields(data) ==
    IF data.ty # "obj" THEN Raise("AttributeError")
    ELSE Ok([ data_id       |-> Get(data, "id", PNone).val,
              data_device   |-> Get(data, "device", PNone).val,
              data_marketing |-> Get(data, "marketing", PNone).val,
              data_source   |-> Get(data, "source", PNone).val,
              data_medium   |-> Get(data, "medium", PNone).val,
              data_campaign |-> Get(data, "campaign", PNone).val,
              data_clickId  |-> Get(data, "clickId", PNone).val,
              data_term     |-> Get(data, "term", PNone).val,
              data_referrer |-> Get(data, "referrer", PNone).val,
              data_storage  |-> Get(data, "storage", PNone).val,
              data_isNew    |-> Get(data, "isNew", PNone).val,
              data_count    |-> Get(data, "count", PNone).val,
              data_order_id |-> Get(data, "order_id", PNone).val,
              data_domain   |-> Get(data, "domain", PNone).val ])

extract_user_fields(user) ==
    IF user.ty # "obj" THEN Raise("AttributeError")
    ELSE Ok([ user_device  |-> Get(user, "device", PNone).val,
              user_session |-> Get(user, "session", PNone).val ])

extract_source_fields(source) ==
    IF source.ty # "obj" THEN Raise("AttributeError")
    ELSE Ok([ source_id          |-> Get(source, "id", PNone).val,
              source_previous_id |-> Get(source, "previous_id", PNone).val ])

\* the column list of the INSERT statement (lines 112-118)
InsertColumns ==
    << "timestamp", "event", "data", "data_id", "data_device", "data_marketing",
       "data_source", "data_medium", "data_campaign", "data_clickId", "data_term",
       "data_referrer", "data_storage", "data_isNew", "data_count", "data_order_id",
       "data_domain", "context", "custom", "globals", "user", "user_device",
       "user_session", "nested", "consent", "event_id", "trigger", "entity",
       "action", "timing", "group", "count", "version", "source", "source_id",
       "source_previous_id" >>

\* the tuple `values` (lines 127-164), given the three extracted maps
ValuesTuple(e, timestamp, data_fields, user_fields, source_fields) ==
    << timestamp,
       Get(e, "event", PNone).val,
       Dumps(Get(e, "data", EmptyDict).val),
       data_fields.data_id,
       data_fields.data_device,
       data_fields.data_marketing,
       data_fields.data_source,
       data_fields.data_medium,
       data_fields.data_campaign,
       data_fields.data_clickId,
       data_fields.data_term,
       data_fields.data_referrer,
       data_fields.data_storage,
       data_fields.data_isNew,
       data_fields.data_count,
       data_fields.data_order_id,
       data_fields.data_domain,
       Dumps(Get(e, "context", EmptyDict).val),
       Dumps(Get(e, "custom", EmptyDict).val),
       Dumps(Get(e, "globals", EmptyDict).val),
       Dumps(Get(e, "user", EmptyDict).val),
       user_fields.user_device,
       user_fields.user_session,
       Dumps(Get(e, "nested", EmptyList).val),
       Dumps(Get(e, "consent", EmptyDict).val),
       Get(e, "id", PNone).val,
       Get(e, "trigger", PNone).val,
       Get(e, "entity", PNone).val,
       Get(e, "action", PNone).val,
       Get(e, "timing", PNone).val,
       Get(e, "group", PNone).val,
       Get(e, "count", PNone).val,
       Dumps(Get(e, "version", EmptyDict).val),
       Dumps(Get(e, "source", EmptyDict).val),
       source_fields.source_id,
       source_fields.source_previous_id >>

\* the same with the user fields read from the `source` sub-object
MapRow_user_from_source(e, now) ==
    IF e.ty # "obj" THEN Raise("AttributeError")
    ELSE LET timestamp     == convert_timestamp(Get(e, "timestamp", PNum(0)).val, now)
             data_fields   == extract_data_fields(Get(e, "data", EmptyDict).val)
             user_fields   == extract_user_fields(Get(e, "source", EmptyDict).val)
             source_fields == extract_source_fields(Get(e, "source", EmptyDict).val)
         IN  IF ~data_fields.ok THEN data_fields
             ELSE IF ~user_fields.ok THEN user_fields
             ELSE IF ~source_fields.ok THEN source_fields
             ELSE Ok(ValuesTuple(e, timestamp, data_fields.val, user_fields.val,
                                 source_fields.val))

\* lines 98-164 of insert_event_to_redshift: the row, or the exception raised
\* on the way (event_data.get on something that is no dict, or an extract_*
\* call on a sub-object that is no dict)
MapRow(e, now) ==
    IF e.ty # "obj" THEN Raise("AttributeError")
    ELSE LET timestamp     == convert_timestamp(Get(e, "timestamp", PNum(0)).val, now)
             data_fields   == extract_data_fields(Get(e, "data", EmptyDict).val)
             user_fields   == extract_user_fields(Get(e, "user", EmptyDict).val)
             source_fields == extract_source_fields(Get(e, "source", EmptyDict).val)
         IN  IF ~data_fields.ok THEN data_fields
             ELSE IF ~user_fields.ok THEN user_fields
             ELSE IF ~source_fields.ok THEN source_fields
             ELSE Ok(ValuesTuple(e, timestamp, data_fields.val, user_fields.val,
                                 source_fields.val))

(***************************************************************************)
(* Responses of the event handler (lambda_function.py 190-273).            *)
(***************************************************************************)
CorsHeaders ==
    [ ContentType |-> "application/json",
      AllowOrigin |-> "*",
      AllowHeaders |-> "Content-Type,X-Amz-Date,Authorization,X-Api-Key,X-Amz-Security-Token",
      AllowMethods |-> "POST,OPTIONS" ]

Resp(code, body) == [statusCode |-> code, headers |-> CorsHeaders, body |-> Dumps(body)]
NoResponse == [none |-> TRUE]
Raised == [raised |-> TRUE]

MissingBody == Resp(400, [error |-> "Missing request body"])
InvalidJson == Resp(400, [error |-> "Invalid JSON in request body"])
MissingFields(missing) == Resp(400, [error |-> "Missing required fields", fields |-> missing])
Processed(id) == Resp(200, [message |-> "Event processed successfully", event_id |-> id])
FailedToProcess == Resp(500, [error |-> "Failed to process event"])
InternalError == Resp(500, [error |-> "Internal server error"])

required_fields == << "event", "timestamp" >>

\* [field for field in required_fields if field not in event_data]
RECURSIVE missing_fields(_, _)
missing_fields(e, i) ==
    IF i > Len(required_fields) THEN << >>
    ELSE IF Contains(e, required_fields[i]).val
         THEN missing_fields(e, i + 1)
         ELSE << required_fields[i] >> \o missing_fields(e, i + 1)

\* lambda_handler up to the call of the writer (lines 184-231): either the
\* response it returns at once, or the parsed event it hands to the writer
Validate(req) ==
    IF req.ty = "unserializable"                                  \* json.dumps(event), line 186
    THEN [next |-> "respond", resp |-> InternalError]
    ELSE IF ~Contains(req, "body").ok                              \* 'body' not in event
    THEN [next |-> "respond", resp |-> InternalError]
    ELSE IF ~Contains(req, "body").val
    THEN [next |-> "respond", resp |-> MissingBody]
    ELSE IF req.ty # "obj"                                         \* event['body']
    THEN [next |-> "respond", resp |-> InternalError]
    ELSE LET parsed == Loads(req.f["body"])
         IN  IF ~parsed.ok
             THEN [next |-> "respond",
                   resp |-> IF parsed.exc = "JSONDecodeError" THEN InvalidJson
                            ELSE InternalError]
             ELSE IF ~Contains(parsed.val, "event").ok             \* TypeError in the comprehension
             THEN [next |-> "respond", resp |-> InternalError]
             ELSE IF missing_fields(parsed.val, 1) # << >>
             THEN [next |-> "respond", resp |-> MissingFields(missing_fields(parsed.val, 1))]
             ELSE [next |-> "insert", event_data |-> parsed.val]

\* the same without the outermost `except Exception`: an exception that
\* leaves the writer leaves the handler
AfterWriter_no_outer_except(result, e) ==
    IF result = "raised" THEN Raised
    ELSE IF result = "True" THEN Processed(Get(e, "id", PNone).val)
    ELSE FailedToProcess

\* lambda_handler after the writer (lines 234-273): `success` is what the
\* writer returned, or "raised" when an exception left it
AfterWriter(result, e) ==
    IF result = "raised" THEN InternalError
    ELSE IF result = "True"
         THEN IF Get(e, "id", PNone).ok THEN Processed(Get(e, "id", PNone).val)
              ELSE InternalError
    ELSE FailedToProcess

(***************************************************************************)
(* The warehouse.                                                          *)
(***************************************************************************)
NoTable == [exists |-> FALSE, def |-> "none", rows |-> << >>]
NoTxn == [rows |-> << >>, create |-> FALSE]

\* INSERT INTO events (...) is accepted by a table that has the columns
InsertAccepted(tbl) == tbl.exists /\ tbl.def = "events"

\* COMMIT of transaction txn on warehouse tbl
Committed(tbl, txn) ==
    IF txn.create /\ ~tbl.exists
    THEN [exists |-> TRUE, def |-> "events", rows |-> txn.rows]
    ELSE [tbl EXCEPT !.rows = tbl.rows \o txn.rows]

(***************************************************************************)
(* End of an invocation.                                                   *)
(***************************************************************************)
StatusOf(resp) == IF "statusCode" \in DOMAIN resp THEN resp.statusCode ELSE 0

\* every caller sets table' and faulted' before it uses Finish
Finish(resp) ==
    /\ response' = resp
    /\ log' = Append(log, [prog |-> prog, status |-> StatusOf(resp), table |-> table',
                           faulted |-> faulted'])
    /\ pc' = IF viaInvoker THEN "i_report" ELSE "idle"

\* the writer returns `result` (or raises) and the handler answers
EndWriter(result) ==
    /\ success' = result
    /\ Finish(AfterWriter(result, event_data))

\* the `except` clause of the writer (lines 175-180): with no connection in
\* locals() it returns False at once, otherwise it goes on to rollback
WriterExcept ==
    IF conn = "none"
    THEN EndWriter("False")
    ELSE /\ pc' = "w_rollback"
         /\ UNCHANGED << success, response, log >>

(***************************************************************************)
(* Inputs of the event handler.                                            *)
(***************************************************************************)
Dict1(k, v) == PObj([x \in {k} |-> v])

\* the first instant datetime.fromtimestamp rejects, in milliseconds
TooLate == (MaxEpochSec + 1) * 1000

Timestamps == { PNum(1500), PNum(TooLate), S("soon") }

\* complete events: `timestamp` of each kind, `data` absent or no object
CompleteEvents ==
    { PObj([k \in {"event", "timestamp"} \cup ks |->
              CASE k = "event" -> S("click")
                [] k = "timestamp" -> ts
                [] k = "data" -> S("x")
                [] k = "id" -> S("e1")]) :
        ts \in Timestamps, ks \in { {}, {"data"}, {"id"} } }

Bodies ==
    { PNum(5), PNone, S("x"), PStr(<< "event", "timestamp" >>),
      EmptyList, PList(<< S("event") >>), PList(<< S("event"), S("timestamp") >>),
      EmptyDict, Dict1("event", S("click")), Dict1("timestamp", PNum(1500)) }
    \cup CompleteEvents

Requests ==
    { Unserializable, PNone, EmptyDict, Dict1("body", PNone), Dict1("body", Garbage) }
    \cup { Dict1("body", JsonText(b)) : b \in Bodies }

Clock == { 700, 1900 }

\* get_redshift_credentials of the event handler (lines 17-36): what the
\* environment can make of it; every outcome but "ok" is an exception, which
\* the function logs and raises again
CredOutcomes ==
    { "ok", "no_env", "ClientError", "EndpointConnectionError", "JSONDecodeError",
      "KeyError" }

(***************************************************************************)
(* The event handler: lambda_handler and insert_event_to_redshift.         *)
(***************************************************************************)
invokerVars == << exitCode, printed >>

\* lambda_handler is entered with request req (lines 182-234)
Receive(req) ==
    /\ pc = "idle"
    /\ Len(log) < MaxInvocations
    /\ prog' = "event"
    /\ viaInvoker' = FALSE
    /\ request' = req
    /\ conn' = "none"
    /\ calls' = << >>
    /\ row' = << >>
    /\ pending' = NoTxn
    /\ credentials' = PNone
    /\ faulted' = FALSE
    /\ exitCode' = -1
    /\ printed' = "none"
    /\ UNCHANGED << table, clock >>
    /\ LET v == Validate(req)
       IN  IF v.next = "respond"
           THEN /\ event_data' = PNone
                /\ success' = "none"
                /\ response' = v.resp
                /\ log' = Append(log, [prog |-> "event", status |-> StatusOf(v.resp),
                                       table |-> table, faulted |-> FALSE])
                /\ pc' = "idle"
           ELSE /\ event_data' = v.event_data
                /\ success' = "none"
                /\ response' = NoResponse
                /\ pc' = "w_creds"
                /\ UNCHANGED log

\* get_redshift_connection -> get_redshift_credentials (lines 41, 19-36)
W_GetCredentials ==
    /\ pc = "w_creds"
    /\ \E out \in CredOutcomes :
         /\ calls' = IF out = "no_env" THEN calls ELSE Append(calls, "get_secret_value")
         /\ faulted' = (faulted \/ out # "ok")
         /\ UNCHANGED << prog, viaInvoker, request, event_data, clock, conn, row, pending,
                         table, credentials, invokerVars >>
         /\ IF out = "ok"
            THEN /\ pc' = "w_connect"
                 /\ UNCHANGED << success, response, log >>
            ELSE WriterExcept

\* pg8000.Connection(**credentials) (line 44)
W_Connect ==
    /\ pc = "w_connect"
    /\ \E ok \in BOOLEAN :
         /\ calls' = Append(calls, "connect")
         /\ faulted' = (faulted \/ ~ok)
         /\ UNCHANGED << prog, viaInvoker, request, event_data, clock, row, pending, table,
                         credentials, invokerVars >>
         /\ IF ok
            THEN /\ conn' = "open"
                 /\ pc' = "w_cursor"
                 /\ UNCHANGED << success, response, log >>
            ELSE /\ conn' = conn
                 /\ WriterExcept

\* connection.cursor() (line 96)
W_Cursor ==
    /\ pc = "w_cursor"
    /\ \E ok \in BOOLEAN :
         /\ calls' = Append(calls, "cursor")
         /\ faulted' = (faulted \/ ~ok)
         /\ UNCHANGED << prog, viaInvoker, request, event_data, clock, conn, row, pending,
                         table, credentials, invokerVars >>
         /\ IF ok
            THEN /\ pc' = "w_map"
                 /\ UNCHANGED << success, response, log >>
            ELSE WriterExcept

\* the row is built (lines 98-164)
W_Map ==
    /\ pc = "w_map"
    /\ \E now \in Clock :
         LET r == MapRow(event_data, now)
         IN  /\ clock' = now
             /\ calls' = Append(calls, "map")
             /\ UNCHANGED << prog, viaInvoker, request, event_data, conn, pending, table,
                             credentials, faulted, invokerVars >>
             /\ IF r.ok
                THEN /\ row' = r.val
                     /\ pc' = "w_execute"
                     /\ UNCHANGED << success, response, log >>
                ELSE /\ row' = row
                     /\ WriterExcept

\* cursor.execute(insert_query, values) (line 166)
W_Execute ==
    /\ pc = "w_execute"
    /\ \E ok \in BOOLEAN :
         /\ calls' = Append(calls, "execute")
         /\ faulted' = (faulted \/ ~ok)
         /\ UNCHANGED << prog, viaInvoker, request, event_data, clock, conn, row, table,
                         credentials, invokerVars >>
         /\ IF ok /\ InsertAccepted(table)
            THEN /\ pending' = [pending EXCEPT !.rows = Append(@, row)]
                 /\ pc' = "w_commit"
                 /\ UNCHANGED << success, response, log >>
            ELSE /\ pending' = pending
                 /\ WriterExcept

\* connection.commit() (line 167)
W_Commit ==
    /\ pc = "w_commit"
    /\ \E ok \in BOOLEAN :
         /\ calls' = Append(calls, "commit")
         /\ faulted' = (faulted \/ ~ok)
         /\ UNCHANGED << prog, viaInvoker, request, event_data, clock, conn, row,
                         credentials, invokerVars >>
         /\ IF ok
            THEN /\ table' = Committed(table, pending)
                 /\ pending' = NoTxn
                 /\ pc' = "w_cursor_close"
                 /\ UNCHANGED << success, response, log >>
            ELSE /\ UNCHANGED << table, pending >>
                 /\ WriterExcept

\* cursor.close() (line 169)
W_CursorClose ==
    /\ pc = "w_cursor_close"
    /\ \E ok \in BOOLEAN :
         /\ calls' = Append(calls, "cursor.close")
         /\ faulted' = (faulted \/ ~ok)
         /\ UNCHANGED << prog, viaInvoker, request, event_data, clock, conn, row, pending,
                         table, credentials, invokerVars >>
         /\ IF ok
            THEN /\ pc' = "w_close"
                 /\ UNCHANGED << success, response, log >>
            ELSE WriterExcept

\* connection.close() of the try block (line 170), then `return True`
W_Close ==
    /\ pc = "w_close"
    /\ \E ok \in BOOLEAN :
         /\ calls' = Append(calls, "close")
         /\ faulted' = (faulted \/ ~ok)
         /\ UNCHANGED << prog, viaInvoker, request, event_data, clock, row, table,
                         credentials, invokerVars >>
         /\ IF ok
            THEN /\ conn' = "closed"
                 /\ pending' = NoTxn
                 /\ EndWriter("True")
            ELSE /\ UNCHANGED << conn, pending >>
                 /\ WriterExcept

\* connection.rollback() of the except clause (line 178); an exception here
\* leaves the writer
W_Rollback ==
    /\ pc = "w_rollback"
    /\ \E ok \in BOOLEAN :
         /\ calls' = Append(calls, "rollback")
         /\ faulted' = (faulted \/ ~ok)
         /\ UNCHANGED << prog, viaInvoker, request, event_data, clock, conn, row, table,
                         credentials, invokerVars >>
         /\ IF ok
            THEN /\ pending' = NoTxn
                 /\ pc' = "w_close2"
                 /\ UNCHANGED << success, response, log >>
            ELSE /\ pending' = pending
                 /\ EndWriter("raised")

\* connection.close() of the except clause (line 179), then `return False`
W_Close2 ==
    /\ pc = "w_close2"
    /\ \E ok \in BOOLEAN :
         /\ calls' = Append(calls, "close")
         /\ faulted' = (faulted \/ ~ok)
         /\ UNCHANGED << prog, viaInvoker, request, event_data, clock, row, table,
                         credentials, invokerVars >>
         /\ IF ok
            THEN /\ conn' = "closed"
                 /\ pending' = NoTxn
                 /\ EndWriter("False")
            ELSE /\ UNCHANGED << conn, pending >>
                 /\ EndWriter("raised")

Writer ==
    \/ W_GetCredentials \/ W_Connect \/ W_Cursor \/ W_Map \/ W_Execute
    \/ W_Commit \/ W_CursorClose \/ W_Close \/ W_Rollback \/ W_Close2

(***************************************************************************)
(* The schema bootstrap handler (setup_database_lambda.py).                *)
(***************************************************************************)
BootResp(code, body) == [statusCode |-> code, body |-> Dumps(body)]
CredentialsFailed == BootResp(500, [error |-> "Failed to get Redshift credentials"])
SetupFailed == BootResp(500, [error |-> "Database setup failed"])
SetupDone(creds) ==
    BootResp(200, [ message |-> "Database setup completed successfully",
                    endpoint |-> Get(creds, "host", PNone).val,
                    database |-> Get(creds, "database", S("dev")).val ])

FullSecret ==
    PObj([k \in {"host", "port", "database", "username", "password"} |->
            IF k = "port" THEN PNum(5439) ELSE S(k)])

\* values the secret's JSON text can hold
Secrets == { FullSecret, Dict1("host", S("host")), EmptyDict, PNum(5) }

\* get_secret_value / json.loads in get_redshift_credentials (lines 22-23):
\* the exception raised, if any
SecretFailures == { "ClientError", "EndpointConnectionError", "JSONDecodeError", "KeyError" }

\* get_redshift_credentials (lines 15-28): only ClientError is caught
get_redshift_credentials(failure, secret) ==
    IF failure = "none" THEN Ok(secret)
    ELSE IF failure = "ClientError" THEN Ok(PNone)
    ELSE Raise(failure)

\* `not credentials`
Falsy(v) ==
    \/ v.ty = "null"
    \/ v.ty = "obj" /\ DOMAIN v.f = {}
    \/ v.ty = "num" /\ v.n = 0

\* CREATE TABLE IF NOT EXISTS events (...) (lines 46-89) on warehouse tbl:
\* whether the statement creates the table, or the error it ends with
create_events_table_plain(tbl) ==
    IF tbl.exists THEN Raise("ProgrammingError") ELSE Ok(TRUE)

create_events_table(tbl) == Ok(~tbl.exists)

\* the handler is entered (lines 103-108)
B_Enter(via) ==
    /\ prog' = "bootstrap"
    /\ viaInvoker' = via
    /\ request' = PNone
    /\ event_data' = PNone
    /\ conn' = "none"
    /\ calls' = << >>
    /\ row' = << >>
    /\ pending' = NoTxn
    /\ credentials' = PNone
    /\ success' = "none"
    /\ response' = NoResponse
    /\ faulted' = FALSE
    /\ pc' = "b_creds"
    /\ UNCHANGED << table, clock, log >>

B_Start ==
    /\ pc = "idle"
    /\ Len(log) < MaxInvocations
    /\ exitCode' = -1
    /\ printed' = "none"
    /\ B_Enter(FALSE)

\* credentials are fetched and looked at (lines 112-132)
B_GetCredentials ==
    /\ pc = "b_creds"
    /\ \E failure \in {"none"} \cup SecretFailures, secret \in Secrets :
         LET got == get_redshift_credentials(failure, secret)
         IN  /\ failure # "none" => secret = FullSecret
             /\ calls' = Append(calls, "get_secret_value")
             /\ faulted' = (failure # "none" \/ Falsy(secret) \/ secret.ty # "obj")
             /\ UNCHANGED << prog, viaInvoker, request, event_data, clock, conn, row,
                             pending, table, success, invokerVars >>
             /\ IF ~got.ok
                THEN /\ credentials' = credentials
                     /\ Finish(Raised)
                ELSE /\ credentials' = got.val
                     /\ IF Falsy(got.val)
                        THEN Finish(CredentialsFailed)
                        ELSE IF ~Get(got.val, "host", PNone).ok      \* credentials.get, line 123
                        THEN Finish(Raised)
                        ELSE /\ pc' = "b_connect"
                             /\ UNCHANGED << response, log >>

\* create_database_schema returns `result` and the handler answers (lines 142-158)
EndSchema(result) ==
    /\ success' = result
    /\ Finish(IF result = "True" THEN SetupDone(credentials) ELSE SetupFailed)

\* pg8000.connect(...) (line 34)
B_Connect ==
    /\ pc = "b_connect"
    /\ \E ok \in BOOLEAN :
         /\ calls' = Append(calls, "connect")
         /\ faulted' = (faulted \/ ~ok)
         /\ UNCHANGED << prog, viaInvoker, request, event_data, clock, row, pending, table,
                         credentials, invokerVars >>
         /\ IF ok
            THEN /\ conn' = "open"
                 /\ pc' = "b_cursor"
                 /\ UNCHANGED << success, response, log >>
            ELSE /\ conn' = conn
                 /\ EndSchema("False")

\* conn.cursor() (line 43)
B_Cursor ==
    /\ pc = "b_cursor"
    /\ \E ok \in BOOLEAN :
         /\ calls' = Append(calls, "cursor")
         /\ faulted' = (faulted \/ ~ok)
         /\ UNCHANGED << prog, viaInvoker, request, event_data, clock, conn, row, pending,
                         table, credentials, invokerVars >>
         /\ IF ok
            THEN /\ pc' = "b_execute"
                 /\ UNCHANGED << success, response, log >>
            ELSE EndSchema("False")

\* cursor.execute(create_events_table) (line 89)
B_Execute ==
    /\ pc = "b_execute"
    /\ \E ok \in BOOLEAN :
         LET done == create_events_table(table)
         IN  /\ calls' = Append(calls, "execute")
             /\ faulted' = (faulted \/ ~ok)
             /\ UNCHANGED << prog, viaInvoker, request, event_data, clock, conn, row, table,
                             credentials, invokerVars >>
             /\ IF ok /\ done.ok
                THEN /\ pending' = [pending EXCEPT !.create = done.val]
                     /\ pc' = "b_commit"
                     /\ UNCHANGED << success, response, log >>
                ELSE /\ pending' = pending
                     /\ EndSchema("False")

\* conn.commit() (line 92)
B_Commit ==
    /\ pc = "b_commit"
    /\ \E ok \in BOOLEAN :
         /\ calls' = Append(calls, "commit")
         /\ faulted' = (faulted \/ ~ok)
         /\ UNCHANGED << prog, viaInvoker, request, event_data, clock, conn, row,
                         credentials, invokerVars >>
         /\ IF ok
            THEN /\ table' = Committed(table, pending)
                 /\ pending' = NoTxn
                 /\ pc' = "b_cursor_close"
                 /\ UNCHANGED << success, response, log >>
            ELSE /\ UNCHANGED << table, pending >>
                 /\ EndSchema("False")

\* cursor.close() (line 93)
B_CursorClose ==
    /\ pc = "b_cursor_close"
    /\ \E ok \in BOOLEAN :
         /\ calls' = Append(calls, "cursor.close")
         /\ faulted' = (faulted \/ ~ok)
         /\ UNCHANGED << prog, viaInvoker, request, event_data, clock, conn, row, pending,
                         table, credentials, invokerVars >>
         /\ IF ok
            THEN /\ pc' = "b_close"
                 /\ UNCHANGED << success, response, log >>
            ELSE EndSchema("False")

\* conn.close() (line 94), then `return True`
B_Close ==
    /\ pc = "b_close"
    /\ \E ok \in BOOLEAN :
         /\ calls' = Append(calls, "close")
         /\ faulted' = (faulted \/ ~ok)
         /\ UNCHANGED << prog, viaInvoker, request, event_data, clock, row, pending, table,
                         credentials, invokerVars >>
         /\ IF ok
            THEN /\ conn' = "closed"
                 /\ EndSchema("True")
            ELSE /\ conn' = conn
                 /\ EndSchema("False")

Bootstrap ==
    \/ B_Start \/ B_GetCredentials \/ B_Connect \/ B_Cursor \/ B_Execute
    \/ B_Commit \/ B_CursorClose \/ B_Close

(***************************************************************************)
(* The external invoker (setup-database-via-lambda.py).                    *)
(***************************************************************************)
handlerVars == << request, event_data, clock, conn, calls, row, pending, table,
                  credentials, success, response, faulted, log >>

\* how main() comes by the function name (lines 55-76)
NameOutcomes == { "argument", "stack_output", "not_in_outputs", "ClientError" }

\* what the Invoke API answers for InvocationType='RequestResponse' once the
\* function has run: HTTP status 200 and the function's result as payload; a
\* function that raised yields an error object as payload
InvokeReply(resp) ==
    [ StatusCode |-> 200,
      Payload |-> IF resp = Raised THEN [errorMessage |-> "unhandled"] ELSE resp ]

\* invoke_setup_lambda (lines 22-28), given the API's reply
invoke_setup_lambda(reply) ==
    IF reply.StatusCode = 200
    THEN << TRUE, reply.Payload >>
    ELSE << FALSE, reply.Payload >>

\* main() starts (lines 34-52)
I_Start ==
    /\ pc = "idle"
    /\ Len(log) < MaxInvocations
    /\ pc' = "i_resolve"
    /\ prog' = "none"
    /\ viaInvoker' = TRUE
    /\ exitCode' = -1
    /\ printed' = "none"
    /\ UNCHANGED handlerVars

\* the function name is resolved (lines 55-76)
I_Resolve ==
    /\ pc = "i_resolve"
    /\ \E out \in NameOutcomes :
         /\ UNCHANGED << prog, viaInvoker, handlerVars >>
         /\ IF out \in {"argument", "stack_output"}
            THEN /\ pc' = "i_invoke"
                 /\ UNCHANGED invokerVars
            ELSE /\ pc' = "idle"
                 /\ printed' = "failure"
                 /\ exitCode' = 1

\* lambda_client.invoke(...) (lines 16-20): a ClientError ends main() with
\* exit status 1 (lines 30-32, 103-109); otherwise the function runs
I_Invoke ==
    /\ pc = "i_invoke"
    /\ \E ok \in BOOLEAN :
         IF ok
         THEN /\ B_Enter(TRUE)
              /\ UNCHANGED invokerVars
         ELSE /\ pc' = "idle"
              /\ printed' = "failure"
              /\ exitCode' = 1
              /\ UNCHANGED << prog, viaInvoker, handlerVars >>

\* the reply is read and reported (lines 23-28 and 93-109)
I_Report ==
    /\ pc = "i_report"
    /\ LET result == invoke_setup_lambda(InvokeReply(response))
       IN  /\ printed' = IF result[1] THEN "success" ELSE "failure"
           /\ exitCode' = IF result[1] THEN 0 ELSE 1
    /\ pc' = "idle"
    /\ UNCHANGED << prog, viaInvoker, handlerVars >>

Invoker == I_Start \/ I_Resolve \/ I_Invoke \/ I_Report

\* a row written by an earlier invocation
OldRow == MapRow(Dict1("event", S("view")), 700).val

\* warehouse states an invocation can find
Tables == { NoTable,
            [exists |-> TRUE, def |-> "events", rows |-> << >>],
            [exists |-> TRUE, def |-> "events", rows |-> << OldRow >>],
            [exists |-> TRUE, def |-> "other", rows |-> << >>] }

Init ==
    /\ pc = "idle"
    /\ prog = "none"
    /\ viaInvoker = FALSE
    /\ request = PNone
    /\ event_data = PNone
    /\ clock \in Clock
    /\ conn = "none"
    /\ calls = << >>
    /\ row = << >>
    /\ pending = NoTxn
    /\ table \in Tables
    /\ credentials = PNone
    /\ success = "none"
    /\ response = NoResponse
    /\ faulted = FALSE
    /\ log = << >>
    /\ exitCode = -1
    /\ printed = "none"

Next ==
    \/ \E req \in Requests : Receive(req)
    \/ Writer
    \/ Bootstrap
    \/ Invoker

Spec == Init /\ [][Next]_vars

(***************************************************************************)
(* The writer from the mapping step on, over events of every shape.        *)
(***************************************************************************)
Absent == [ty |-> "absent"]

\* a sub-object whose value under key k is the text "<name>.<k>"
SubObj(name, ks) == PObj([k \in ks |-> PStr(<< name, k >>)])

DataKeys ==
    { "id", "device", "marketing", "source", "medium", "campaign", "clickId", "term",
      "referrer", "storage", "isNew", "count", "order_id", "domain", "other" }

TopKeys ==
    { "id", "trigger", "entity", "action", "timing", "group", "count", "context",
      "custom", "globals", "nested", "consent", "version" }

DataChoices ==
    { SubObj("data", ks) : ks \in { x \in SUBSET DataKeys : Cardinality(x) <= MaxDataKeys } }
    \cup { Absent, S("x") }

UserChoices ==
    { SubObj("user", ks) : ks \in { {}, {"device"}, {"device", "session"} } }
    \cup { Absent, S("x") }

SourceChoices ==
    { SubObj("source", ks) :
        ks \in { {"device"}, {"id", "previous_id"}, {"id", "previous_id", "device"} } }
    \cup { Absent, S("x") }

\* an event with `event` and `timestamp`, the given sub-objects (unless
\* Absent) and the top-level keys tops
MkEvent(ts, d, u, src, tops) ==
    LET subs == { k \in {"data", "user", "source"} :
                    (CASE k = "data" -> d [] k = "user" -> u [] k = "source" -> src) # Absent }
    IN  PObj([k \in {"event", "timestamp"} \cup subs \cup tops |->
                CASE k = "event" -> S("click")
                  [] k = "timestamp" -> ts
                  [] k = "data" -> d
                  [] k = "user" -> u
                  [] k = "source" -> src
                  [] OTHER -> PStr(<< "top", k >>)])

\* the last instant before datetime's range
TooEarly == -(MaxEpochSec * 1000) - 1

RichTimestamps ==
    { PNum(TooEarly), PNum(-1), PNum(0), PNum(1500), PNum(TooLate), S("soon"), PNone }

RichEvents ==
    { MkEvent(PNum(1500), d, u, src, tops) :
        d \in DataChoices, u \in UserChoices, src \in SourceChoices, tops \in { {}, TopKeys } }
    \cup { MkEvent(ts, Absent, Absent, Absent, {}) : ts \in RichTimestamps }

\* the writer has its connection and cursor and is about to build the row
InitMap ==
    /\ pc = "w_map"
    /\ prog = "event"
    /\ viaInvoker = FALSE
    /\ event_data \in RichEvents
    /\ request = Dict1("body", JsonText(event_data))
    /\ clock = 700
    /\ conn = "open"
    /\ calls = << "get_secret_value", "connect", "cursor" >>
    /\ row = << >>
    /\ pending = NoTxn
    /\ table = [exists |-> TRUE, def |-> "events", rows |-> << >>]
    /\ credentials = PNone
    /\ success = "none"
    /\ response = NoResponse
    /\ faulted = FALSE
    /\ log = << >>
    /\ exitCode = -1
    /\ printed = "none"

NextMap ==
    \/ W_Map \/ W_Execute \/ W_Commit \/ W_CursorClose \/ W_Close \/ W_Rollback
    \/ W_Close2

SpecMap == InitMap /\ [][NextMap]_vars

(***************************************************************************)
(* Properties.                                                             *)
(***************************************************************************)
Count(seq, x) == Cardinality({ i \in 1..Len(seq) : seq[i] = x })
Has(seq, x) == \E i \in 1..Len(seq) : seq[i] = x

EventDone == prog = "event" /\ pc = "idle"

\* requests whose handling raises outside every inner try: the request cannot
\* be logged or searched, the body is no str, or the parsed body is a number
\* or null
RaisesInHandler(req) ==
    \/ req.ty \in {"unserializable", "null"}
    \/ /\ req.ty = "obj"
       /\ "body" \in DOMAIN req.f
       /\ \/ req.f["body"].ty # "str"
          \/ req.f["body"].valid /\ req.f["body"].value.ty \in {"num", "null"}

\* C1: the event lambda_handler never raises: while it runs there is no
\* response, when it ends there is one with statusCode 200, 400 or 500 (which
\* the log records), and every exception no inner step handles (in the
\* handler's own code, or one that leaves the writer) gives 500 "Internal
\* server error".
C1_HandlerAlwaysResponds ==
    prog = "event" =>
        /\ (pc = "idle") <=> (response # NoResponse)
        /\ pc = "idle" =>
              /\ StatusOf(response) \in {200, 400, 500}
              /\ log # << >> /\ log[Len(log)].status = StatusOf(response)
              /\ (success = "raised" \/ RaisesInHandler(request)) => response = InternalError

C1_Witness ==
    /\ EventDone
    /\ success = "raised"
    /\ Has(calls, "rollback")
    /\ response = InternalError

\* the required fields a parsed body lacks, in the order event, timestamp
Lacking(v) ==
    SelectSeq(required_fields, LAMBDA k : ~(v.ty = "obj" /\ k \in DOMAIN v.f))

\* C2: the writer is invoked only after the three validations passed: no body
\* gives 400 "Missing request body", a body that is no JSON gives 400 "Invalid
\* JSON in request body", a JSON body lacking event or timestamp gives 400
\* "Missing required fields" listing all of them, and none of these cases
\* makes any external call.
C2_ValidationBeforeWriter ==
    (prog = "event" /\ request.ty = "obj") =>
        LET hasBody == "body" \in DOMAIN request.f
            isText == hasBody /\ request.f["body"].ty = "str"
            isJson == isText /\ request.f["body"].valid
        IN  /\ calls # << >> => isJson /\ Lacking(request.f["body"].value) = << >>
            /\ (pc = "idle" /\ ~hasBody) => response = MissingBody
            /\ (pc = "idle" /\ isText /\ ~isJson) => response = InvalidJson
            /\ (pc = "idle" /\ isJson /\ Lacking(request.f["body"].value) # << >>) =>
                   response = MissingFields(Lacking(request.f["body"].value))

\* C3: insert_event_to_redshift never raises past its own boundary: whatever
\* fails, it returns True or False to the handler.
C3_WriterNeverRaises ==
    prog = "event" => success \in {"none", "True", "False"}

\* C4: after an exception with the connection open, rollback is attempted
\* and then close is called, in that order, before the failure is reported;
\* with no connection opened neither is attempted; and a writer that has
\* returned leaves no opened connection unclosed.
C4_RollbackThenClose ==
    (EventDone /\ success # "none") =>
        /\ (conn # "none" /\ success # "True") =>
              /\ Len(calls) >= 2
              /\ calls[Len(calls) - 1] = "rollback"
              /\ calls[Len(calls)] = "close"
        /\ conn = "none" => ~Has(calls, "rollback") /\ ~Has(calls, "close")
        /\ success \in {"True", "False"} => conn # "open"

\* the steps of one invocation in their fixed order
StepRank ==
    [ get_secret_value |-> 1, connect |-> 2, map |-> 3, execute |-> 4, commit |-> 5,
      close |-> 6 ]

\* C5: within one invocation of the event handler each of acquire credentials,
\* open connection, map row, execute, commit, close happens at most once and
\* in that order, no step is repeated after a failure, and no connection is
\* opened unless credentials were retrieved.
C5_OnceEachInOrder ==
    prog = "event" =>
        /\ \A op \in DOMAIN StepRank : Count(calls, op) <= 1
        /\ \A i, j \in 1..Len(calls) :
              (i < j /\ calls[i] \in DOMAIN StepRank /\ calls[j] \in DOMAIN StepRank)
                  => StepRank[calls[i]] < StepRank[calls[j]]
        /\ Has(calls, "connect") => Has(calls, "get_secret_value")

\* C6: the invoker prints success and exits 0 only when the bootstrap handler
\* returned a success result, and reports failure with a non-zero exit status
\* whenever the handler returned statusCode 500 or the invocation itself
\* failed.
C6_InvokerFaithful ==
    (viaInvoker /\ pc = "idle" /\ printed # "none") =>
        /\ (printed = "success" \/ exitCode = 0) =>
               (prog = "bootstrap" /\ StatusOf(response) = 200)
        /\ (prog = "bootstrap" /\ StatusOf(response) = 500) =>
               (printed = "failure" /\ exitCode # 0)
        /\ prog = "none" => (printed = "failure" /\ exitCode # 0)

\* C7: the bootstrap handler never raises: when credential retrieval, connect,
\* execute or commit fails it returns statusCode 500 with an error body.
C7_BootstrapNeverRaises ==
    (prog = "bootstrap" /\ pc \in {"idle", "i_report"}) =>
        /\ response # Raised
        /\ faulted => StatusOf(response) = 500

\* C8: the bootstrap handler is idempotent: two invocations in sequence, each
\* with credentials and connection available, both return success, and the
\* table (definition and contents) after the second is the table after the
\* first.
C8_BootstrapIdempotent ==
    \A i \in 1..(Len(log) - 1) :
        ( /\ log[i].prog = "bootstrap" /\ ~log[i].faulted
          /\ log[i + 1].prog = "bootstrap" /\ ~log[i + 1].faulted )
        => /\ log[i].status = 200
           /\ log[i + 1].status = 200
           /\ log[i + 1].table = log[i].table
           /\ log[i].table.exists

C8_Witness ==
    /\ Len(log) >= 2
    /\ log[1].prog = "bootstrap" /\ ~log[1].faulted
    /\ log[2].prog = "bootstrap" /\ ~log[2].faulted
    /\ log[2].status = 200
    /\ log[2].table.rows # << >>
    /\ prog = "bootstrap" /\ pc = "idle" /\ Has(calls, "execute")

\* the event has the shape the row mapper is specified for: an object whose
\* data, user and source are objects where present
WellShaped(e) ==
    /\ e.ty = "obj"
    /\ \A sub \in {"data", "user", "source"} : sub \in DOMAIN e.f => e.f[sub].ty = "obj"

Mapped == prog = "event" /\ Has(calls, "map")

\* the value of key `key` of sub-object `sub` of e, None when either is absent
Lookup(e, sub, key) ==
    IF sub \in DOMAIN e.f /\ key \in DOMAIN e.f[sub].f THEN e.f[sub].f[key] ELSE PNone

\* the sub-object and key each extracted scalar column stands for
ScalarSource ==
    [ data_id |-> << "data", "id" >>, data_device |-> << "data", "device" >>,
      data_marketing |-> << "data", "marketing" >>, data_source |-> << "data", "source" >>,
      data_medium |-> << "data", "medium" >>, data_campaign |-> << "data", "campaign" >>,
      data_clickId |-> << "data", "clickId" >>, data_term |-> << "data", "term" >>,
      data_referrer |-> << "data", "referrer" >>, data_storage |-> << "data", "storage" >>,
      data_isNew |-> << "data", "isNew" >>, data_count |-> << "data", "count" >>,
      data_order_id |-> << "data", "order_id" >>, data_domain |-> << "data", "domain" >>,
      user_device |-> << "user", "device" >>, user_session |-> << "user", "session" >>,
      source_id |-> << "source", "id" >>,
      source_previous_id |-> << "source", "previous_id" >> ]

\* the columns holding the JSON text of a whole top-level value
BlobColumns ==
    { "data", "context", "custom", "globals", "user", "nested", "consent", "version",
      "source" }

Top(e, key, default) == IF key \in DOMAIN e.f THEN e.f[key] ELSE default

\* what column col of the row of event e holds (the timestamp column apart)
ColumnValue(e, col) ==
    CASE col \in DOMAIN ScalarSource -> Lookup(e, ScalarSource[col][1], ScalarSource[col][2])
      [] col \in BlobColumns -> JsonText(Top(e, col, IF col = "nested" THEN EmptyList ELSE EmptyDict))
      [] col = "event_id" -> Top(e, "id", PNone)
      [] OTHER -> Top(e, col, PNone)

\* C9: for every event with event and timestamp whose data, user and source
\* are objects (with any of their keys) or absent, the mapping succeeds, the
\* row has the 36 values of the INSERT column list in its order, and every
\* data_*, user_* and source_* column holds the value of its key in its own
\* sub-object, None when the key or the sub-object is absent.
C9_RowMapping ==
    (Mapped /\ WellShaped(event_data)) =>
        /\ Len(InsertColumns) = 36
        /\ Len(row) = 36
        /\ \A i \in 2..36 : row[i] = ColumnValue(event_data, InsertColumns[i])

C9_Witness ==
    /\ Mapped
    /\ WellShaped(event_data)
    /\ "user" \notin DOMAIN event_data.f
    /\ "source" \in DOMAIN event_data.f /\ "device" \in DOMAIN event_data.f["source"].f
    /\ "data" \in DOMAIN event_data.f /\ "device" \in DOMAIN event_data.f["data"].f
    /\ row[5] = PStr(<< "data", "device" >>)
    /\ row[22] = PNone
    /\ row[35] = PNone

\* C10: convert_timestamp is total: whatever the timestamp (any integer, or no
\* number at all) the row gets a timestamp text and the insert goes on to
\* execute; when the conversion fails that text is the current wall-clock
\* time.
C10_TimestampTotal ==
    (Mapped /\ WellShaped(event_data)) =>
        /\ Len(row) = 36
        /\ row[1].ty = "isotime"
        /\ calls[Len(calls)] = "map" => pc = "w_execute"
        /\ ~FromTimestamp(event_data.f["timestamp"]).ok => row[1] = IsoFormat(clock)

C10_Witness ==
    /\ Mapped
    /\ event_data.f["timestamp"] = PNum(TooLate)
    /\ row[1] = IsoFormat(clock)
    /\ Has(calls, "commit")
    /\ success = "True"

\* the warehouse as the running invocation found it: what the invocation
\* before it left, or one of the initial warehouses
TablesBefore == IF Len(log) >= 2 THEN { log[Len(log) - 1].table } ELSE Tables

\* exactly the row of this invocation was added to the table
OneRowCommitted ==
    /\ row # << >>
    /\ \E t0 \in TablesBefore : table = [t0 EXCEPT !.rows = Append(@, row)]

NoRowCommitted == table \in TablesBefore

\* C11: the response of the event handler agrees with the warehouse: it is 200
\* exactly when one row for this event was committed during the invocation,
\* and with a 500 response (a failing connect, or cursor.close / connection.close
\* failing after the commit) no row of this invocation has been committed.
C11_ResponseMatchesWarehouse ==
    EventDone =>
        /\ (StatusOf(response) = 200) <=> OneRowCommitted
        /\ StatusOf(response) = 500 => NoRowCommitted

====
